---- MODULE Spec2Model ----
(***************************************************************************)
(* Model of src/stuff.py: the query compiler (build_query and              *)
(* build_sql_query), the executor (execute_query of DatabaseQueryAgent     *)
(* and SimplifiedDBAgent) and the two tool-calling orchestrators           *)
(* (process_user_question and process_question).                           *)
(*                                                                         *)
(* A Python str is a sequence of one-character strings, so that            *)
(* concatenation, upper(), lower() and startswith() are computed, not      *)
(* assumed.  A Python scalar that may be None, a str or an int is a        *)
(* tagged record; a dict is a function on the keys it holds.               *)
(***************************************************************************)
EXTENDS Integers, Sequences, FiniteSets, TLC

VARIABLES
  variant,        \* which orchestrator runs: "process_user_question" or "process_question"
  pc,             \* position of the orchestrator in its function body
  messages,       \* the conversation (list `messages`)
  i,              \* index of `tool_call` in response_message.tool_calls
  j,              \* index of the inner loop variable in the follow-up message's tool_calls
  first_at,       \* position in messages of response_message
  follow_at,      \* position in messages of the current follow-up message
  sql_query,      \* results["sql_query"] (process_question) / local sql_query
  query_results,  \* results["query_results"] / local query_results
  returned,       \* the value the function returned, NotReturned before
  modelCalls,     \* history: one entry per client.chat.completions.create call
  execLog,        \* history: one entry per agent.execute_query call
  compileLog,     \* history: one entry per build_query / build_sql_query call
  engineLog,      \* history: every statement handed to conn.execute, in order
  left,           \* tool calls the model may still emit in this run
  compiler,       \* compiler under test in CompileSpec
  cq,             \* query structure under test in CompileSpec
  csql            \* output of the compiler under test, NotCompiled before

vars == <<variant, pc, messages, i, j, first_at, follow_at, sql_query,
          query_results, returned, modelCalls, execLog, compileLog, engineLog,
          left, compiler, cq, csql>>

orchVars == <<variant, pc, messages, i, j, first_at, follow_at, sql_query,
              query_results, returned, modelCalls, execLog, compileLog,
              engineLog, left>>

compVars == <<compiler, cq, csql>>

(***************************************************************************)
(* Bounds of the model.                                                    *)
(***************************************************************************)
\* Tool calls the model emits in one run, over all its responses.
MaxToolCalls == 3

(***************************************************************************)
(* Python values.                                                          *)
(***************************************************************************)
None == [t |-> "none"]
StrVal(s) == [t |-> "str", v |-> s]
IntVal(n) == [t |-> "int", v |-> n]

\* dict.get(key, default)
DictGet(d, key, default) == IF key \in DOMAIN d THEN d[key] ELSE default

\* bool(v) of a scalar
Truthy(v) ==
  CASE v.t = "none" -> FALSE
    [] v.t = "str" -> v.v # <<>>
    [] v.t = "int" -> v.v # 0

LowerLetters == <<"a","b","c","d","e","f","g","h","i","j","k","l","m",
                  "n","o","p","q","r","s","t","u","v","w","x","y","z">>
UpperLetters == <<"A","B","C","D","E","F","G","H","I","J","K","L","M",
                  "N","O","P","Q","R","S","T","U","V","W","X","Y","Z">>
Digits == <<"0","1","2","3","4","5","6","7","8","9">>

UpperChar(c) ==
  IF \E k \in 1..26 : LowerLetters[k] = c
  THEN UpperLetters[CHOOSE k \in 1..26 : LowerLetters[k] = c]
  ELSE c

LowerChar(c) ==
  IF \E k \in 1..26 : UpperLetters[k] = c
  THEN LowerLetters[CHOOSE k \in 1..26 : UpperLetters[k] = c]
  ELSE c

\* str.upper()
str_upper(s) == [k \in 1..Len(s) |-> UpperChar(s[k])]

\* str.lower()
str_lower(s) == [k \in 1..Len(s) |-> LowerChar(s[k])]

\* str.startswith(prefix)
str_startswith(s, prefix) ==
  /\ Len(s) >= Len(prefix)
  /\ SubSeq(s, 1, Len(prefix)) = prefix

\* sep.join(parts)
RECURSIVE str_join(_, _)
str_join(sep, parts) ==
  IF parts = <<>> THEN <<>>
  ELSE IF Len(parts) = 1 THEN parts[1]
  ELSE parts[1] \o sep \o str_join(sep, Tail(parts))

\* str(n) of a non-negative int
RECURSIVE NatStr(_)
NatStr(n) == IF n < 10 THEN <<Digits[n + 1]>> ELSE NatStr(n \div 10) \o <<Digits[(n % 10) + 1]>>

\* str(v), also what an f-string field renders
PyStr(v) ==
  CASE v.t = "none" -> <<"N","o","n","e">>
    [] v.t = "str" -> v.v
    [] v.t = "int" -> IF v.v < 0 THEN <<"-">> \o NatStr(-v.v) ELSE NatStr(v.v)

(***************************************************************************)
(* String literals of the compilers.                                       *)
(***************************************************************************)
lit_star == <<"*">>
lit_comma == <<",", " ">>
lit_select == <<"S","E","L","E","C","T"," ">>
lit_from == <<" ","F","R","O","M"," ">>
lit_join == <<" ","J","O","I","N"," ">>
lit_on == <<" ","O","N"," ">>
lit_dot == <<".">>
lit_eq == <<" ","="," ">>
lit_eqop == <<"=">>
lit_sp == <<" ">>
lit_quote == <<"'">>
lit_where == <<" ","W","H","E","R","E"," ">>
lit_and == <<" ","A","N","D"," ">>
lit_groupby == <<" ","G","R","O","U","P"," ","B","Y"," ">>
lit_orderby == <<" ","O","R","D","E","R"," ","B","Y"," ">>
lit_limit == <<" ","L","I","M","I","T"," ">>
lit_inner == <<"I","N","N","E","R">>
lit_asc == <<"A","S","C">>
lit_lowselect == <<"s","e","l","e","c","t">>
lit_notable == <<"-","-"," ","E","r","r","o","r",":"," ","N","o"," ",
                 "t","a","b","l","e"," ","s","p","e","c","i","f","i","e","d">>

(***************************************************************************)
(* The compiler's clauses, shared text of build_query and build_sql_query. *)
(***************************************************************************)
\* JoinClause with the join type copied as given, not upper-cased
JoinClause_NoUpper(table, join) ==
  LET join_table == DictGet(join, "table", <<>>)
      join_type == DictGet(join, "type", lit_inner)
      join_conditions == DictGet(join, "on", <<>>)
      left_col == DictGet(join_conditions, "left_column", <<>>)
      right_col == DictGet(join_conditions, "right_column", <<>>)
  IN lit_sp \o join_type \o lit_join \o join_table \o lit_on \o table \o lit_dot
       \o left_col \o lit_eq \o join_table \o lit_dot \o right_col

\* one JOIN clause; `table` is the already rendered primary table
JoinClause(table, join) ==
  LET join_table == DictGet(join, "table", <<>>)
      join_type == str_upper(DictGet(join, "type", lit_inner))
      join_conditions == DictGet(join, "on", <<>>)
      left_col == DictGet(join_conditions, "left_column", <<>>)
      right_col == DictGet(join_conditions, "right_column", <<>>)
  IN lit_sp \o join_type \o lit_join \o join_table \o lit_on \o table \o lit_dot
       \o left_col \o lit_eq \o join_table \o lit_dot \o right_col

RECURSIVE JoinClauses(_, _)
JoinClauses(table, joins) ==
  IF joins = <<>> THEN <<>>
  ELSE JoinClause(table, Head(joins)) \o JoinClauses(table, Tail(joins))

JoinsPart(query_structure, table) ==
  IF "joins" \in DOMAIN query_structure /\ query_structure["joins"] # <<>>
  THEN JoinClauses(table, query_structure["joins"])
  ELSE <<>>

\* FormatValue that quotes nothing
FormatValue_Unquoted(value) == PyStr(value)

\* formatted_value of one condition
FormatValue(value) ==
  IF value.t = "str" /\ ~str_startswith(str_lower(value.v), lit_lowselect)
  THEN lit_quote \o value.v \o lit_quote
  ELSE PyStr(value)

ConditionText(condition) ==
  LET column == DictGet(condition, "column", <<>>)
      operator == DictGet(condition, "operator", lit_eqop)
      value == DictGet(condition, "value", StrVal(<<>>))
  IN column \o lit_sp \o operator \o lit_sp \o FormatValue(value)

\* WherePart that tests only that the key is there, not that the list is
\* non-empty
WherePart_Always(query_structure) ==
  IF "conditions" \in DOMAIN query_structure
  THEN LET cs == query_structure["conditions"]
       IN lit_where \o str_join(lit_and, [k \in 1..Len(cs) |-> ConditionText(cs[k])])
  ELSE <<>>

WherePart(query_structure) ==
  IF "conditions" \in DOMAIN query_structure /\ query_structure["conditions"] # <<>>
  THEN LET cs == query_structure["conditions"]
       IN lit_where \o str_join(lit_and, [k \in 1..Len(cs) |-> ConditionText(cs[k])])
  ELSE <<>>

GroupByPart(query_structure) ==
  IF "group_by" \in DOMAIN query_structure /\ query_structure["group_by"] # <<>>
  THEN lit_groupby \o str_join(lit_comma, query_structure["group_by"])
  ELSE <<>>

OrderText(order) ==
  DictGet(order, "column", <<>>) \o lit_sp \o DictGet(order, "direction", lit_asc)

OrderByPart(query_structure) ==
  IF "order_by" \in DOMAIN query_structure /\ query_structure["order_by"] # <<>>
  THEN LET os == query_structure["order_by"]
       IN lit_orderby \o str_join(lit_comma, [k \in 1..Len(os) |-> OrderText(os[k])])
  ELSE <<>>

\* LimitPart that tests only that the key is there, not that the limit is
\* truthy
LimitPart_IfPresent(query_structure) ==
  IF "limit" \in DOMAIN query_structure
  THEN lit_limit \o PyStr(query_structure["limit"])
  ELSE <<>>

LimitPart(query_structure) ==
  IF "limit" \in DOMAIN query_structure /\ Truthy(query_structure["limit"])
  THEN lit_limit \o PyStr(query_structure["limit"])
  ELSE <<>>

\* everything after the table check: SELECT ... FROM ... and the clauses
SqlBody(query_structure, columns, table) ==
  lit_select \o columns \o lit_from \o PyStr(table)
    \o JoinsPart(query_structure, PyStr(table))
    \o WherePart(query_structure)
    \o GroupByPart(query_structure)
    \o OrderByPart(query_structure)
    \o LimitPart(query_structure)

\* build_query of process_user_question's module
build_query(query_structure) ==
  LET columns == str_join(lit_comma, DictGet(query_structure, "columns", <<lit_star>>))
      table == DictGet(query_structure, "table", StrVal(<<>>))
  IN IF ~Truthy(table) THEN lit_notable
     ELSE SqlBody(query_structure, columns, table)

\* build_sql_query of process_question's module: no table check
build_sql_query(query_structure) ==
  LET columns == str_join(lit_comma, DictGet(query_structure, "columns", <<lit_star>>))
      table == DictGet(query_structure, "table", StrVal(<<>>))
  IN SqlBody(query_structure, columns, table)

(***************************************************************************)
(* JSON at the tool-call boundary.  tool_call.function.arguments is text:  *)
(* it may fail to parse, or parse to an object (a dict).                   *)
(***************************************************************************)
Malformed == [kind |-> "malformed"]
Object(d) == [kind |-> "object", value |-> d]

\* json.loads(text): raises on text that is not JSON
json_loads_raises(arguments) == arguments.kind = "malformed"

\* json.dumps(rows) raises TypeError on a value JSON has no form for
Serializable(value) == value.t \in {"none", "str", "int"}

json_dumps_raises(rows) ==
  \E k \in 1..Len(rows) : \E col \in DOMAIN rows[k] : ~Serializable(rows[k][col])

(***************************************************************************)
(* The executor: execute_query of DatabaseQueryAgent / SimplifiedDBAgent.  *)
(* The engine's behaviour on a statement is the environment's choice:      *)
(* `first` is the outcome of conn.execute(query).fetchall(), `second` the  *)
(* outcome of the second conn.execute(query) and its .description.         *)
(***************************************************************************)
EngineMessages == {"Parser Error: syntax error"}
NoDescriptionMessage == "'NoneType' object is not iterable"

RowSets ==
  { <<>>,
    <<[amount |-> IntVal(5)]>>,
    <<[hired |-> [t |-> "date"]]>> }

EngineOutcomes ==
  [first : {"fail"}, second : {"skipped"}, message : EngineMessages, rows : {<<>>}]
  \cup [first : {"ok"}, second : {"fail"}, message : EngineMessages, rows : {<<>>}]
  \cup [first : {"ok"}, second : {"nodesc"}, message : {NoDescriptionMessage}, rows : {<<>>}]
  \cup [first : {"ok"}, second : {"ok"}, message : {""}, rows : RowSets]

\* conn.execute(None) is rejected by the engine binding
OutcomesFor(query) ==
  IF query = None THEN {o \in EngineOutcomes : o.first = "fail"} ELSE EngineOutcomes

\* conn.execute raised, or .description was None: the except branch runs
EngineFailed(o) == ~(o.first = "ok" /\ o.second = "ok")

\* the list execute_query returns
execute_query(query, o) ==
  IF ~EngineFailed(o)
  THEN o.rows
  ELSE <<[error |-> StrVal(o.message)]>>

\* the statements execute_query hands to conn.execute
EngineCalls(query, o) ==
  IF o.first = "ok" THEN <<query, query>> ELSE <<query>>

(***************************************************************************)
(* The model service: what one chat.completions.create call may return.    *)
(***************************************************************************)
A == "process_user_question"
B == "process_question"

Contents == {"text one", "text two"}
NoContent == "null"

\* a response that carries tool calls has no text; one without has text
ContentsFor(calls) == IF calls = <<>> THEN Contents ELSE {NoContent}

txt_t == <<"t">>
txt_colA == <<"a">>
txt_delete == <<"D","E","L","E","T","E"," ","F","R","O","M"," ","t">>

\* argument objects the model passes to query_database
QueryArgs ==
  { [table |-> StrVal(txt_t)],
    [table |-> StrVal(<<>>), columns |-> <<txt_colA>>],
    [columns |-> <<txt_colA>>] }

\* the query structure process_question builds from the arguments
WrapStructure(function_args) ==
  [table |-> DictGet(function_args, "table", None),
   columns |-> DictGet(function_args, "columns", <<lit_star>>),
   conditions |-> DictGet(function_args, "conditions", <<>>),
   joins |-> DictGet(function_args, "joins", <<>>),
   group_by |-> DictGet(function_args, "group_by", <<>>),
   order_by |-> DictGet(function_args, "order_by", <<>>),
   limit |-> DictGet(function_args, "limit", None)]

\* the SQL text the orchestrator `v` compiles from the arguments
CompileFor(v, function_args) ==
  IF v = A THEN build_query(function_args)
  ELSE build_sql_query(WrapStructure(function_args))

\* SQL the model may put in an execute_query call: any compiled text it was
\* shown, or a statement of its own
SqlTexts(v) == {CompileFor(v, a) : a \in QueryArgs} \cup {txt_delete}

ToolCallChoices(v) ==
  [name : {"query_database"}, arguments : {Object(a) : a \in QueryArgs} \cup {Malformed}]
  \cup [name : {"execute_query"},
        arguments : {Object([query |-> StrVal(q)]) : q \in SqlTexts(v)}
                      \cup {Object([note |-> StrVal(txt_t)]), Malformed}]
  \cup [name : {"get_weather"}, arguments : {Object([city |-> StrVal(txt_t)]), Malformed}]

\* the tool_calls lists a response may carry when `n` calls are left
ToolCallLists(v, n) == UNION {[1..m -> ToolCallChoices(v)] : m \in 0..n}

\* the service gives every tool call of invocation `nth` its own id
WithIds(calls, nth) ==
  [k \in 1..Len(calls) |->
     [id |-> nth * 10 + k, name |-> calls[k].name, arguments |-> calls[k].arguments]]

AssistantMessage(content, calls, nth) ==
  [role |-> "assistant", content |-> content, tool_calls |-> WithIds(calls, nth)]

(***************************************************************************)
(* The orchestrators: process_user_question (A) and process_question (B).  *)
(***************************************************************************)
NotReturned == [kind |-> "none"]
NoStructure == [table |-> None]

\* response_message.tool_calls and the follow-up message's tool_calls
FirstCalls == messages[first_at].tool_calls
FollowCalls == messages[follow_at].tool_calls

\* the entry recorded for one chat.completions.create call: what was asked
\* (tools offered, tool_choice, how many messages) and the text that came back
ModelCall(kind, tools, tool_choice, content) ==
  [kind |-> kind, tools |-> tools, tool_choice |-> tool_choice,
   nmsgs |-> Len(messages), content |-> content]

\* tool_choice of the second invocation
FollowUpToolChoice(v) == IF v = A THEN "auto" ELSE "execute_query"

\* the key under which the compiled SQL is reported back to the model
CompiledKey(v) == IF v = A THEN "query" ELSE "sql"

\* the branches of the first loop: `elif function_name == "execute_query"`
\* exists in process_user_question only
HandlesDirectExecute(v) == v = A

ToolMessage(call, name, content) ==
  [tool_call_id |-> call.id, role |-> "tool", name |-> name, content |-> content]

\* where the outer loop goes after finishing the tool call at index i
AfterOuter ==
  /\ i' = i + 1
  /\ pc' = IF i + 1 > Len(FirstCalls) THEN "final" ELSE "loop"

\* LoadSchema with the schema read only after the first request to the model
\* has been sent
LoadSchema_CallsModelFirst ==
  /\ pc = "init"
  /\ \E loaded \in BOOLEAN :
       IF loaded
       THEN /\ messages' = <<[role |-> "system"], [role |-> "user"]>>
            /\ pc' = "intent"
            /\ UNCHANGED modelCalls
       ELSE /\ pc' = "raised"
            /\ modelCalls' = Append(modelCalls, ModelCall("intent", TRUE, "auto", NoContent))
            /\ UNCHANGED messages
  /\ UNCHANGED <<variant, i, j, first_at, follow_at, sql_query, query_results,
                 returned, execLog, compileLog, engineLog, left>>
  /\ UNCHANGED compVars

\* agent = ...Agent(DB_PATH, SCHEMA_PATH); messages = [system, user]
LoadSchema ==
  /\ pc = "init"
  /\ \E loaded \in BOOLEAN :
       IF loaded
       THEN /\ messages' = <<[role |-> "system"], [role |-> "user"]>>
            /\ pc' = "intent"
       ELSE /\ pc' = "raised"
            /\ UNCHANGED messages
  /\ UNCHANGED <<variant, i, j, first_at, follow_at, sql_query, query_results,
                 returned, modelCalls, execLog, compileLog, engineLog, left>>
  /\ UNCHANGED compVars

\* first call, tools offered, tool_choice="auto"; the response is appended
InvokeIntent ==
  /\ pc = "intent"
  /\ \E calls \in ToolCallLists(variant, left) : \E content \in ContentsFor(calls) :
       /\ modelCalls' = Append(modelCalls, ModelCall("intent", TRUE, "auto", content))
       /\ messages' = Append(messages, AssistantMessage(content, calls, Len(modelCalls) + 1))
       /\ first_at' = Len(messages) + 1
       /\ left' = left - Len(calls)
       /\ i' = 1
       /\ pc' = IF calls = <<>> THEN "final" ELSE "loop"
  /\ UNCHANGED <<variant, j, follow_at, sql_query, query_results, returned,
                 execLog, compileLog, engineLog>>
  /\ UNCHANGED compVars

\* function_args = json.loads(tool_call.function.arguments) raises, for any
\* function name: the call is parsed before its name is looked at
ArgumentsRaise ==
  /\ pc = "loop"
  /\ json_loads_raises(FirstCalls[i].arguments)
  /\ pc' = "raised"
  /\ UNCHANGED <<variant, messages, i, j, first_at, follow_at, sql_query,
                 query_results, returned, modelCalls, execLog, compileLog,
                 engineLog, left>>
  /\ UNCHANGED compVars

\* if function_name == "query_database": compile, report the SQL
HandleQueryDatabase ==
  /\ pc = "loop"
  /\ ~json_loads_raises(FirstCalls[i].arguments)
  /\ FirstCalls[i].name = "query_database"
  /\ LET function_args == FirstCalls[i].arguments.value
         sql == CompileFor(variant, function_args)
     IN /\ sql_query' = StrVal(sql)
        /\ compileLog' = Append(compileLog, [input |-> function_args, sql |-> sql,
                                             execs_before |-> Len(execLog)])
        /\ messages' = Append(messages,
              ToolMessage(FirstCalls[i], "query_database",
                          [key |-> CompiledKey(variant), text |-> sql]))
        /\ pc' = "followup"
  /\ UNCHANGED <<variant, i, j, first_at, follow_at, query_results, returned,
                 modelCalls, execLog, engineLog, left>>
  /\ UNCHANGED compVars

\* RunExecute with the compiler's output handed to the executor instead of
\* the SQL of the tool call
RunExecute_Compiled(call, o, next_pc) ==
  LET query == sql_query
      rows == execute_query(query, o)
  IN /\ execLog' = Append(execLog, [query |-> query, call_id |-> call.id, rows |-> rows,
                                   failed |-> EngineFailed(o),
                                   calls_before |-> Len(modelCalls)])
     /\ engineLog' = engineLog \o EngineCalls(query, o)
     /\ query_results' = [t |-> "list", v |-> rows]
     /\ IF json_dumps_raises(rows)
        THEN /\ pc' = "raised"
             /\ UNCHANGED messages
        ELSE /\ messages' = Append(messages,
                   ToolMessage(call, "execute_query", [key |-> "rows", rows |-> rows]))
             /\ pc' = next_pc

\* the state after agent.execute_query(query) for tool call `call`, and the
\* append of its serialized rows; `next_pc` is where control goes afterwards
RunExecute(call, o, next_pc) ==
  LET query == DictGet(call.arguments.value, "query", None)
      rows == execute_query(query, o)
  IN /\ execLog' = Append(execLog, [query |-> query, call_id |-> call.id, rows |-> rows,
                                   failed |-> EngineFailed(o),
                                   calls_before |-> Len(modelCalls)])
     /\ engineLog' = engineLog \o EngineCalls(query, o)
     /\ query_results' = [t |-> "list", v |-> rows]
     /\ IF json_dumps_raises(rows)
        THEN /\ pc' = "raised"
             /\ UNCHANGED messages
        ELSE /\ messages' = Append(messages,
                   ToolMessage(call, "execute_query", [key |-> "rows", rows |-> rows]))
             /\ pc' = next_pc

\* elif function_name == "execute_query": direct execution
HandleExecuteQuery ==
  /\ pc = "loop"
  /\ ~json_loads_raises(FirstCalls[i].arguments)
  /\ FirstCalls[i].name = "execute_query"
  /\ HandlesDirectExecute(variant)
  /\ \E o \in OutcomesFor(DictGet(FirstCalls[i].arguments.value, "query", None)) :
       RunExecute(FirstCalls[i], o, IF i + 1 > Len(FirstCalls) THEN "final" ELSE "loop")
  /\ i' = IF pc' = "raised" THEN i ELSE i + 1
  /\ UNCHANGED <<variant, j, first_at, follow_at, sql_query, returned,
                 modelCalls, compileLog, left>>
  /\ UNCHANGED compVars

\* no branch matches the function name: the loop moves on
IsIgnoredName(v, name) ==
  /\ name # "query_database"
  /\ ~(name = "execute_query" /\ HandlesDirectExecute(v))

HandleIgnored ==
  /\ pc = "loop"
  /\ ~json_loads_raises(FirstCalls[i].arguments)
  /\ IsIgnoredName(variant, FirstCalls[i].name)
  /\ AfterOuter
  /\ UNCHANGED <<variant, messages, j, first_at, follow_at, sql_query,
                 query_results, returned, modelCalls, execLog, compileLog,
                 engineLog, left>>
  /\ UNCHANGED compVars

\* InvokeFollowUp with the follow-up message stored over the last message
\* instead of appended
InvokeFollowUp_Overwrites ==
  /\ pc = "followup"
  /\ \E calls \in ToolCallLists(variant, left) : \E content \in ContentsFor(calls) :
       /\ modelCalls' = Append(modelCalls,
                               ModelCall("followup", TRUE, FollowUpToolChoice(variant), content))
       /\ messages' = [messages EXCEPT ![Len(messages)] =
                          AssistantMessage(content, calls, Len(modelCalls) + 1)]
       /\ follow_at' = Len(messages)
       /\ left' = left - Len(calls)
       /\ j' = 1
       /\ IF calls = <<>>
          THEN AfterOuter
          ELSE /\ pc' = "inner"
               /\ i' = i
  /\ UNCHANGED <<variant, first_at, sql_query, query_results, returned,
                 execLog, compileLog, engineLog>>
  /\ UNCHANGED compVars

\* second call, tools offered; the follow-up message is appended
InvokeFollowUp ==
  /\ pc = "followup"
  /\ \E calls \in ToolCallLists(variant, left) : \E content \in ContentsFor(calls) :
       /\ modelCalls' = Append(modelCalls,
                               ModelCall("followup", TRUE, FollowUpToolChoice(variant), content))
       /\ messages' = Append(messages, AssistantMessage(content, calls, Len(modelCalls) + 1))
       /\ follow_at' = Len(messages) + 1
       /\ left' = left - Len(calls)
       /\ j' = 1
       /\ IF calls = <<>>
          THEN AfterOuter
          ELSE /\ pc' = "inner"
               /\ i' = i
  /\ UNCHANGED <<variant, first_at, sql_query, query_results, returned,
                 execLog, compileLog, engineLog>>
  /\ UNCHANGED compVars

\* where the inner loop goes after finishing the tool call at index j
AfterInnerPc ==
  IF j + 1 > Len(FollowCalls)
  THEN (IF i + 1 > Len(FirstCalls) THEN "final" ELSE "loop")
  ELSE "inner"

\* the inner test written as "anything but query_database"
IsFollowExecute_NotQueryDatabase(name) == name # "query_database"

\* if follow_tool_call.function.name == "execute_query"
IsFollowExecute(name) == name = "execute_query"

\* inner loop, a call named execute_query: parse, execute, report the rows
HandleFollowExecute ==
  /\ pc = "inner"
  /\ IsFollowExecute(FollowCalls[j].name)
  /\ IF json_loads_raises(FollowCalls[j].arguments)
     THEN /\ pc' = "raised"
          /\ UNCHANGED <<messages, i, j, query_results, execLog, engineLog>>
     ELSE /\ \E o \in OutcomesFor(DictGet(FollowCalls[j].arguments.value, "query", None)) :
               RunExecute(FollowCalls[j], o, AfterInnerPc)
          /\ j' = IF pc' = "raised" THEN j ELSE j + 1
          /\ i' = IF pc' \in {"final", "loop"} THEN i + 1 ELSE i
  /\ UNCHANGED <<variant, first_at, follow_at, sql_query, returned, modelCalls,
                 compileLog, left>>
  /\ UNCHANGED compVars

\* inner loop, any other name: nothing is parsed, nothing is done
HandleFollowIgnored ==
  /\ pc = "inner"
  /\ ~IsFollowExecute(FollowCalls[j].name)
  /\ j' = j + 1
  /\ pc' = AfterInnerPc
  /\ i' = IF pc' \in {"final", "loop"} THEN i + 1 ELSE i
  /\ UNCHANGED <<variant, messages, first_at, follow_at, sql_query,
                 query_results, returned, modelCalls, execLog, compileLog,
                 engineLog, left>>
  /\ UNCHANGED compVars

\* ResultRecord with the first response's text returned as the answer
ResultRecord_FirstContent(v, content) ==
  IF v = A
  THEN [answer |-> messages[first_at].content, query_results |-> query_results]
  ELSE [question |-> "question", sql_query |-> sql_query,
        query_results |-> query_results,
        final_answer |-> messages[first_at].content]

\* the record the function returns
ResultRecord(v, content) ==
  IF v = A
  THEN [answer |-> content, query_results |-> query_results]
  ELSE [question |-> "question", sql_query |-> sql_query,
        query_results |-> query_results, final_answer |-> content]

\* final call, no tools offered; its content is the answer
InvokeFinal ==
  /\ pc = "final"
  /\ \E content \in Contents :
       /\ modelCalls' = Append(modelCalls, ModelCall("final", FALSE, "unset", content))
       /\ returned' = ResultRecord(variant, content)
  /\ pc' = "done"
  /\ UNCHANGED <<variant, messages, i, j, first_at, follow_at, sql_query,
                 query_results, execLog, compileLog, engineLog, left>>
  /\ UNCHANGED compVars

Init ==
  /\ variant \in {A, B}
  /\ pc = "init"
  /\ messages = <<>>
  /\ i = 0
  /\ j = 0
  /\ first_at = 0
  /\ follow_at = 0
  /\ sql_query = None
  /\ query_results = None
  /\ returned = NotReturned
  /\ modelCalls = <<>>
  /\ execLog = <<>>
  /\ compileLog = <<>>
  /\ engineLog = <<>>
  /\ left = MaxToolCalls
  /\ compiler = "none"
  /\ cq = NoStructure
  /\ csql = None

Next ==
  \/ LoadSchema
  \/ InvokeIntent
  \/ ArgumentsRaise
  \/ HandleQueryDatabase
  \/ HandleExecuteQuery
  \/ HandleIgnored
  \/ InvokeFollowUp
  \/ HandleFollowExecute
  \/ HandleFollowIgnored
  \/ InvokeFinal

Spec == Init /\ [][Next]_vars

\* every call into the model service and the engine returns, and the
\* interpreter runs the function to its end
FairSpec == Spec /\ WF_vars(Next)

(***************************************************************************)
(* The compilers on their own: a query structure is drawn, then compiled.  *)
(***************************************************************************)
Absent == [has |-> FALSE]
Present(value) == [has |-> TRUE, v |-> value]

txt_colB == <<"b">>
txt_id == <<"i","d">>
txt_left == <<"l","e","f","t">>
txt_cross == <<"C","r","o","s","s">>
txt_gt == <<">">>
txt_desc == <<"D","E","S","C">>
txt_eng == <<"E","n","g">>
txt_subquery == <<"S","e","l","e","c","t"," ","1">>

TableOptions == {Absent, Present(None), Present(StrVal(<<>>)), Present(StrVal(txt_t))}
ColumnsOptions == {Absent, Present(<<>>), Present(<<txt_colA>>), Present(<<txt_colA, txt_colB>>)}
ConditionsOptions ==
  {Absent, Present(<<>>),
   Present(<<[column |-> txt_colA, operator |-> lit_eqop, value |-> StrVal(txt_eng)]>>),
   Present(<<[column |-> txt_colA, operator |-> txt_gt, value |-> IntVal(12)],
             [column |-> txt_colB, value |-> StrVal(txt_subquery)]>>)}
JoinsOptions ==
  {Absent,
   Present(<<[table |-> txt_colB, type |-> txt_left,
              on |-> [left_column |-> txt_id, right_column |-> txt_colA]]>>),
   Present(<<[table |-> txt_colB,
              on |-> [left_column |-> txt_id, right_column |-> txt_colA]],
             [table |-> txt_colA, type |-> txt_cross, on |-> [left_column |-> txt_id]]>>)}
GroupByOptions == {Absent, Present(<<txt_colA, txt_colB>>)}
OrderByOptions ==
  {Absent, Present(<<[column |-> txt_colA, direction |-> txt_desc], [column |-> txt_colB]>>)}
LimitOptions == {Absent, Present(IntVal(0)), Present(IntVal(5))}

\* the dict that holds exactly the fields that are present
MakeStructure(tb, cols, conds, js, gb, ob, lim) ==
  LET opt == [table |-> tb, columns |-> cols, conditions |-> conds, joins |-> js,
              group_by |-> gb, order_by |-> ob, limit |-> lim]
  IN [k \in {f \in DOMAIN opt : opt[f].has} |-> opt[k].v]

txt_budgets == <<"b","u","d","g","e","t","s">>
txt_department == <<"d","e","p","a","r","t","m","e","n","t">>
txt_amount == <<"a","m","o","u","n","t">>
txt_year == <<"y","e","a","r">>
txt_2023 == <<"2","0","2","3">>
txt_engineering == <<"E","n","g","i","n","e","e","r","i","n","g">>

\* the query structure of run_example's question: the Engineering budget of 2023
BudgetsStructure ==
  [table |-> StrVal(txt_budgets),
   columns |-> <<txt_department, txt_amount>>,
   conditions |->
     <<[column |-> txt_year, operator |-> lit_eqop, value |-> StrVal(txt_2023)],
       [column |-> txt_department, operator |-> lit_eqop,
        value |-> StrVal(txt_engineering)]>>]

CompileInputs ==
  {MakeStructure(tb, cols, conds, js, gb, ob, lim) :
     tb \in TableOptions, cols \in ColumnsOptions, conds \in ConditionsOptions,
     js \in JoinsOptions, gb \in GroupByOptions, ob \in OrderByOptions,
     lim \in LimitOptions}
  \cup {BudgetsStructure}

CompileInit ==
  /\ variant = "none"
  /\ pc = "compile"
  /\ messages = <<>>
  /\ i = 0
  /\ j = 0
  /\ first_at = 0
  /\ follow_at = 0
  /\ sql_query = None
  /\ query_results = None
  /\ returned = NotReturned
  /\ modelCalls = <<>>
  /\ execLog = <<>>
  /\ compileLog = <<>>
  /\ engineLog = <<>>
  /\ left = 0
  /\ compiler \in {"build_query", "build_sql_query"}
  /\ cq \in CompileInputs
  /\ csql = None

CompileWithBuildQuery ==
  /\ pc = "compile"
  /\ compiler = "build_query"
  /\ csql' = StrVal(build_query(cq))
  /\ pc' = "compiled"
  /\ UNCHANGED <<variant, messages, i, j, first_at, follow_at, sql_query,
                 query_results, returned, modelCalls, execLog, compileLog,
                 engineLog, left, compiler, cq>>

CompileWithBuildSqlQuery ==
  /\ pc = "compile"
  /\ compiler = "build_sql_query"
  /\ csql' = StrVal(build_sql_query(cq))
  /\ pc' = "compiled"
  /\ UNCHANGED <<variant, messages, i, j, first_at, follow_at, sql_query,
                 query_results, returned, modelCalls, execLog, compileLog,
                 engineLog, left, compiler, cq>>

CompileNext == CompileWithBuildQuery \/ CompileWithBuildSqlQuery

CompileSpec == CompileInit /\ [][CompileNext]_vars

(***************************************************************************)
(* Properties.                                                             *)
(***************************************************************************)
\* the answer field of the returned record, whichever orchestrator ran
FinalAnswer(r) == IF "final_answer" \in DOMAIN r THEN r.final_answer ELSE r.answer

\* the first response has been received and carries no tool calls
NoToolCalls == first_at > 0 /\ FirstCalls = <<>>

\* the number of model invocations made so far that offered tools
ToolOfferingCalls == Cardinality({k \in 1..Len(modelCalls) : modelCalls[k].tools})

lit_selectword == <<"S","E","L","E","C","T">>

\* the table of a query structure is empty or absent
NoTable(query_structure) == ~Truthy(DictGet(query_structure, "table", StrVal(<<>>)))

\* C1 as stated: when the first response carries no tool calls the run ends
\* with that single model invocation, no executor call, null sql_query and
\* query_results, and final_answer equal to the first response's content.
C1_FirstResponseIsFinal ==
  (pc = "done" /\ NoToolCalls) =>
     /\ Len(modelCalls) = 1
     /\ execLog = <<>>
     /\ returned.query_results = None
     /\ (variant = B => returned.sql_query = None)
     /\ FinalAnswer(returned) = messages[first_at].content

\* C1 amended: when the first response carries no tool calls, neither the
\* compiler nor the executor is invoked, exactly one further model invocation
\* is made and it offers no tools, query_results (and sql_query, where it is
\* returned) is null and final_answer is the content of that final response.
C1_NoToolCallsOneFinalCall ==
  NoToolCalls =>
     /\ pc \in {"final", "done"}
     /\ execLog = <<>>
     /\ compileLog = <<>>
     /\ pc = "done" =>
          /\ Len(modelCalls) = 2
          /\ ~modelCalls[2].tools
          /\ returned.query_results = None
          /\ (variant = B => returned.sql_query = None)
          /\ FinalAnswer(returned) = modelCalls[2].content

\* C1 witness: a finished run without tool calls whose answer differs from
\* the first response's content.
C1_AnswerDiffersFromFirst ==
  /\ pc = "done"
  /\ NoToolCalls
  /\ FinalAnswer(returned) # messages[first_at].content

\* C2 as stated: at most two model invocations that offer tools and at most
\* two executor invocations per question, whatever the model does.
C2_AtMostTwoRounds ==
  /\ ToolOfferingCalls <= 2
  /\ Len(execLog) <= 2

\* C3 as stated: once the schema is loaded and the model and the engine
\* always return, the run eventually reaches DONE with a result record.
C3_AlwaysReachesDone ==
  (pc = "intent") ~> (pc = "done" /\ returned # NotReturned)

\* C4 as stated: the invocation that follows a query_database call is always
\* made with execute_query as the forced tool choice.
C4_FollowUpIsForced ==
  \A k \in 1..Len(modelCalls) :
     modelCalls[k].kind = "followup" => modelCalls[k].tool_choice = "execute_query"

\* the tool call at index k of the first response has been dealt with
FirstHandled(k) == pc \in {"final", "done"} \/ (pc = "loop" /\ k < i)

\* the first response calls execute_query and does not call query_database
DirectExecuteOnly ==
  /\ first_at > 0
  /\ \A k \in 1..Len(FirstCalls) : FirstCalls[k].name # "query_database"
  /\ \E k \in 1..Len(FirstCalls) : FirstCalls[k].name = "execute_query"

\* C5 as stated: an execute_query call of the first response is executed with
\* the SQL it carries, its rows are appended as a tool-result message, and
\* the rows of the last such call are what is returned as query_results.
C5_DirectExecuteRuns ==
  DirectExecuteOnly =>
    \A k \in 1..Len(FirstCalls) :
       (FirstCalls[k].name = "execute_query" /\ FirstHandled(k)) =>
          \E e \in 1..Len(execLog) :
             /\ execLog[e].call_id = FirstCalls[k].id
             /\ execLog[e].query = DictGet(FirstCalls[k].arguments.value, "query", None)
             /\ \E m \in 1..Len(messages) :
                  /\ messages[m].role = "tool"
                  /\ messages[m].tool_call_id = FirstCalls[k].id
                  /\ messages[m].content = [key |-> "rows", rows |-> execLog[e].rows]
             /\ (pc = "done" /\ \A n \in (k + 1)..Len(FirstCalls) :
                                   FirstCalls[n].name # "execute_query")
                  => returned.query_results = [t |-> "list", v |-> execLog[e].rows]

\* C6: every executor invocation made for a tool call of a follow-up response
\* was handed exactly the SQL text that execute_query call carries, and every
\* executor invocation answers an execute_query call of some response.
C6_ExecutesModelSql ==
  \A e \in 1..Len(execLog) :
     /\ \E m \in 1..Len(messages) :
          /\ messages[m].role = "assistant"
          /\ \E k \in 1..Len(messages[m].tool_calls) :
               /\ messages[m].tool_calls[k].id = execLog[e].call_id
               /\ messages[m].tool_calls[k].name = "execute_query"
     /\ \A m \in (first_at + 1)..Len(messages) :
          messages[m].role = "assistant" =>
             \A k \in 1..Len(messages[m].tool_calls) :
                messages[m].tool_calls[k].id = execLog[e].call_id =>
                   execLog[e].query =
                     DictGet(messages[m].tool_calls[k].arguments.value, "query", None)

\* C6 witness: after one compilation, the executor has run, for a call of the
\* follow-up response, a statement that differs from the compiler's output.
C6_ExecutedDiffersFromCompiled ==
  /\ Len(compileLog) = 1
  /\ pc \in {"inner", "final", "done"}
  /\ \E e \in 1..Len(execLog) :
       /\ execLog[e].query # sql_query
       /\ \E k \in 1..Len(FollowCalls) : FollowCalls[k].id = execLog[e].call_id

\* C7 as stated: once the compiler has produced a text for a query structure
\* whose table is empty or absent, no later executor invocation is handed
\* that text.
C7_NoTableTextNeverExecuted ==
  \A c \in 1..Len(compileLog) :
     \A e \in (compileLog[c].execs_before + 1)..Len(execLog) :
        NoTable(compileLog[c].input) => execLog[e].query # StrVal(compileLog[c].sql)

\* C8 as stated: compiling a query structure whose table is empty or absent
\* never yields a string that begins with SELECT.
C8_NoTableNeverCompiles ==
  (pc = "compiled" /\ NoTable(cq)) => ~str_startswith(csql.v, lit_selectword)

\* one row of the shape {error: message} with a non-empty message
IsErrorRows(rows) ==
  /\ Len(rows) = 1
  /\ DOMAIN rows[1] = {"error"}
  /\ rows[1].error.t = "str"
  /\ rows[1].error.v # ""

\* C9 as stated: an engine failure comes back as exactly one {error: message}
\* row, and a run in which that happened does not abort.
C9_ExecuteFailureIsData ==
  /\ \A e \in 1..Len(execLog) : execLog[e].failed => IsErrorRows(execLog[e].rows)
  /\ pc = "raised" => \A e \in 1..Len(execLog) : ~execLog[e].failed

\* a function name that is neither query_database nor execute_query
UnknownName(name) == name \notin {"query_database", "execute_query"}

\* the orchestrator is about to deal with a tool call of an unknown name
AtUnknownCall ==
  \/ pc = "loop" /\ UnknownName(FirstCalls[i].name)
  \/ pc = "inner" /\ UnknownName(FollowCalls[j].name)

\* C10: the step that deals with a tool call of an unknown name invokes
\* neither compiler, executor (nor engine) nor model, appends no message and
\* leaves sql_query and query_results as they were.
C10_UnknownToolIgnored ==
  [][AtUnknownCall =>
       UNCHANGED <<messages, modelCalls, execLog, compileLog, engineLog,
                   sql_query, query_results>>]_vars

\* C10 witness: a tool call of an unknown name has just been dealt with and
\* the run goes on.
C10_UnknownToolHandled ==
  \/ /\ pc \in {"loop", "final"}
     /\ i >= 2
     /\ i - 1 <= Len(FirstCalls)
     /\ UnknownName(FirstCalls[i - 1].name)
  \/ /\ pc = "inner"
     /\ j >= 2
     /\ UnknownName(FollowCalls[j - 1].name)

\* the run was aborted by json.loads on a tool call's arguments: it is
\* aborted, the schema had been loaded, and no json.dumps of rows failed
MalformedAbort ==
  /\ pc = "raised"
  /\ messages # <<>>
  /\ (execLog = <<>> \/ ~json_dumps_raises(execLog[Len(execLog)].rows))

\* C11 as stated: a tool call whose arguments are malformed is not fatal; no
\* run is aborted by it.
C11_MalformedNotFatal == ~MalformedAbort

\* C12 as stated: in a finished run, every execution of a query is followed
\* by exactly one model invocation, which offers no tools and whose content
\* is the returned final_answer.
C12_OneInvocationAfterExecute ==
  pc = "done" =>
    \A e \in 1..Len(execLog) :
       /\ Len(modelCalls) = execLog[e].calls_before + 1
       /\ ~modelCalls[Len(modelCalls)].tools
       /\ FinalAnswer(returned) = modelCalls[Len(modelCalls)].content

\* loading the schema document failed: the run is aborted with no conversation
SchemaLoadFailed == pc = "raised" /\ messages = <<>>

\* C13: when loading the schema fails the run is aborted with no model
\* invocation, no executor invocation and no statement sent to the engine
\* made, nothing is returned and no further step is taken.
C13_SchemaFailureAbortsFirst ==
  SchemaLoadFailed =>
     /\ modelCalls = <<>>
     /\ execLog = <<>>
     /\ engineLog = <<>>
     /\ returned = NotReturned
     /\ ~ENABLED Next

\* C13 witness: a run aborted by the schema load.
C13_SchemaLoadAborted == SchemaLoadFailed /\ variant \in {A, B}

(***************************************************************************)
(* Properties of the compilers, over CompileSpec.                          *)
(***************************************************************************)
\* the positions at which `pat` occurs in `s`
Occurrences(s, pat) ==
  {k \in 1..(Len(s) - Len(pat) + 1) : SubSeq(s, k, k + Len(pat) - 1) = pat}

Contains(s, pat) == Occurrences(s, pat) # {}

EndsWith(s, suffix) ==
  /\ Len(s) >= Len(suffix)
  /\ SubSeq(s, Len(s) - Len(suffix) + 1, Len(s)) = suffix

kw_select == <<"S","E","L","E","C","T"," ">>
kw_from == <<" ","F","R","O","M"," ">>
kw_join == <<" ","J","O","I","N"," ">>
kw_on == <<" ","O","N"," ">>
kw_where == <<" ","W","H","E","R","E"," ">>
kw_and == <<" ","A","N","D"," ">>
kw_groupby == <<" ","G","R","O","U","P"," ","B","Y"," ">>
kw_orderby == <<" ","O","R","D","E","R"," ","B","Y"," ">>
kw_limit == <<" ","L","I","M","I","T"," ">>
kw_commasp == <<","," ">>
kw_inner == <<"I","N","N","E","R">>
kw_upleft == <<"L","E","F","T">>
kw_upcross == <<"C","R","O","S","S">>

\* the clause keywords in SQL clause order
ClauseKeywords == <<kw_join, kw_where, kw_groupby, kw_orderby, kw_limit>>

\* a query structure with a non-empty table has been compiled
CompiledWithTable == pc = "compiled" /\ ~NoTable(cq)

\* <cols>: the columns joined with ", ", or * when there are none
ColumnsText(query_structure) ==
  IF "columns" \in DOMAIN query_structure /\ query_structure["columns"] # <<>>
  THEN str_join(kw_commasp, query_structure["columns"])
  ELSE <<"*">>

\* SELECT <cols> FROM <table>
SelectPrefix(query_structure) ==
  kw_select \o ColumnsText(query_structure) \o kw_from \o query_structure["table"].v

\* every clause keyword comes after the beginning of `prefix` length and
\* before every keyword of a later clause
ClauseOrder(sql, prefix) ==
  \A a \in 1..5 : \A x \in Occurrences(sql, ClauseKeywords[a]) :
     /\ x > Len(prefix)
     /\ \A b \in (a + 1)..5 : \A y \in Occurrences(sql, ClauseKeywords[b]) : x < y

\* C14 as stated: for a non-empty table the compiled text begins with
\* SELECT <cols> FROM <table>, <cols> being * when there are no columns, and
\* every JOIN comes before every WHERE, WHERE
\* before GROUP BY, GROUP BY before ORDER BY, ORDER BY before LIMIT, all of
\* them after that beginning.
C14_PrefixAndClauseOrder ==
  CompiledWithTable =>
     /\ str_startswith(csql.v, SelectPrefix(cq))
     /\ ClauseOrder(csql.v, SelectPrefix(cq))

\* the clause order alone, measured from the end of the table name
ClauseOrderKept ==
  CompiledWithTable =>
     ClauseOrder(csql.v, kw_from \o cq["table"].v)

\* C15 as stated: with table t and an empty columns list the compiled text
\* begins with SELECT * FROM t.
C15_EmptyColumnsGiveStar ==
  (CompiledWithTable /\ "columns" \in DOMAIN cq /\ cq["columns"] = <<>>) =>
     str_startswith(csql.v, kw_select \o <<"*">> \o kw_from \o cq["table"].v)

sql_budgets_unquoted == <<"S","E","L","E","C","T"," ","d","e","p","a","r","t","m","e","n","t",","," ","a","m","o","u","n","t"," ","F","R","O","M"," ","b","u","d","g","e","t","s"," ","W","H","E","R","E"," ","y","e","a","r"," ","="," ","2","0","2","3"," ","A","N","D"," ","d","e","p","a","r","t","m","e","n","t"," ","="," ","'","E","n","g","i","n","e","e","r","i","n","g","'">>
sql_budgets_quoted == <<"S","E","L","E","C","T"," ","d","e","p","a","r","t","m","e","n","t",","," ","a","m","o","u","n","t"," ","F","R","O","M"," ","b","u","d","g","e","t","s"," ","W","H","E","R","E"," ","y","e","a","r"," ","="," ","'","2","0","2","3","'"," ","A","N","D"," ","d","e","p","a","r","t","m","e","n","t"," ","="," ","'","E","n","g","i","n","e","e","r","i","n","g","'">>

\* C16 as stated: the budgets structure compiles to the text in which the
\* year is compared with the bare 2023.
C16_BudgetsYearUnquoted ==
  (pc = "compiled" /\ cq = BudgetsStructure) => csql.v = sql_budgets_unquoted

\* C16 amended: the budgets structure compiles to exactly
\* SELECT department, amount FROM budgets WHERE year = '2023' AND
\* department = 'Engineering': the string value "2023" is quoted like any
\* other string value.
C16_BudgetsYearQuoted ==
  (pc = "compiled" /\ cq = BudgetsStructure) => csql.v = sql_budgets_quoted

\* C16 witness: the budgets structure has been compiled.
C16_BudgetsCompiled == pc = "compiled" /\ cq = BudgetsStructure

\* the value of a condition as the text should show it: a string in single
\* quotes unless its lower-cased form starts with select, anything else bare
ExpectedValue(value) ==
  IF value.t = "str"
  THEN IF str_startswith(str_lower(value.v), <<"s","e","l","e","c","t">>)
       THEN value.v
       ELSE <<"'">> \o value.v \o <<"'">>
  ELSE PyStr(value)

ExpectedCondition(condition) ==
  DictGet(condition, "column", <<>>) \o <<" ">>
    \o DictGet(condition, "operator", <<"=">>) \o <<" ">>
    \o ExpectedValue(DictGet(condition, "value", StrVal(<<>>)))

\*  WHERE c1 AND c2 ..., the conditions in input order
ExpectedWhere(conditions) ==
  kw_where \o str_join(kw_and, [k \in 1..Len(conditions) |-> ExpectedCondition(conditions[k])])

\* C17: with no condition the compiled text holds no WHERE; with conditions
\* it holds WHERE once, followed by the conditions in input order joined by
\* AND, each <column> <operator> <value> with string values quoted unless
\* they start with select (any case) and numbers bare.
C17_ConditionsRendered ==
  CompiledWithTable =>
     LET conditions == DictGet(cq, "conditions", <<>>)
     IN IF conditions = <<>>
        THEN ~Contains(csql.v, kw_where)
        ELSE /\ Cardinality(Occurrences(csql.v, kw_where)) = 1
             /\ Contains(csql.v, ExpectedWhere(conditions))

\* C17 witness: a structure with a number and a sub-query value has been
\* compiled.
C17_TwoConditionsCompiled ==
  /\ CompiledWithTable
  /\ Len(DictGet(cq, "conditions", <<>>)) = 2
  /\ cq # BudgetsStructure

\* C18: without a limit, or with limit 0, the compiled text holds no LIMIT;
\* with a positive limit n it ends with LIMIT n and holds LIMIT once.
C18_LimitOnlyWhenPositive ==
  CompiledWithTable =>
     LET limit == DictGet(cq, "limit", None)
     IN IF limit.t = "int" /\ limit.v > 0
        THEN /\ EndsWith(csql.v, kw_limit \o NatStr(limit.v))
             /\ Cardinality(Occurrences(csql.v, kw_limit)) = 1
        ELSE ~Contains(csql.v, kw_limit)

\* C18 witness: a structure with limit 0 has been compiled.
C18_ZeroLimitCompiled ==
  /\ CompiledWithTable
  /\ DictGet(cq, "limit", None) = IntVal(0)

\* the join type as the text should show it
ExpectedJoinType(join) ==
  IF "type" \notin DOMAIN join THEN kw_inner
  ELSE IF join["type"] = txt_left THEN kw_upleft
  ELSE IF join["type"] = txt_cross THEN kw_upcross
  ELSE join["type"]

ExpectedJoin(table, join) ==
  <<" ">> \o ExpectedJoinType(join) \o kw_join \o DictGet(join, "table", <<>>)
    \o kw_on \o table \o <<".">> \o DictGet(DictGet(join, "on", <<>>), "left_column", <<>>)
    \o <<" ", "=", " ">> \o DictGet(join, "table", <<>>) \o <<".">>
    \o DictGet(DictGet(join, "on", <<>>), "right_column", <<>>)

RECURSIVE ExpectedJoins(_, _)
ExpectedJoins(table, joins) ==
  IF joins = <<>> THEN <<>>
  ELSE ExpectedJoin(table, Head(joins)) \o ExpectedJoins(table, Tail(joins))

\* C19: the joins follow FROM <table> in input order, each
\* <TYPE> JOIN <join.table> ON <table>.<left_column> = <join.table>.<right_column>
\* with the type in upper case (INNER when absent, an unknown type such as
\* Cross kept as CROSS) and the left column qualified with the primary table;
\* without joins the text holds no JOIN.
C19_JoinsRendered ==
  CompiledWithTable =>
     LET joins == DictGet(cq, "joins", <<>>)
     IN IF joins = <<>>
        THEN ~Contains(csql.v, kw_join)
        ELSE /\ Contains(csql.v,
                   kw_from \o cq["table"].v \o ExpectedJoins(cq["table"].v, joins))
             /\ Cardinality(Occurrences(csql.v, kw_join)) = Len(joins)

\* C19 witness: a structure with a typeless join and a join of unknown type
\* has been compiled.
C19_TwoJoinsCompiled ==
  /\ CompiledWithTable
  /\ Len(DictGet(cq, "joins", <<>>)) = 2

(***************************************************************************)
(* Properties of the conversation.                                         *)
(***************************************************************************)
\* C20: every step keeps the messages already in the conversation, in their
\* positions, and at most adds messages at the end.
C20_AppendOnly ==
  [][/\ Len(messages') >= Len(messages)
     /\ SubSeq(messages', 1, Len(messages)) = messages]_vars

\* C20 witness: a finished run whose conversation grew by an assistant
\* message, two tool messages and a follow-up message.
C20_ConversationGrew == pc = "done" /\ Len(messages) >= 6

(***************************************************************************)
(* Properties of the tool-result messages and of the executor.             *)
(***************************************************************************)
\* the conversation as it was sent with the n-th model invocation
SentWith(n) == SubSeq(messages, 1, modelCalls[n].nmsgs)

\* the tool-result message the compilation of tool call `call` is reported in
CompiledResult(call) ==
  ToolMessage(call, "query_database",
              [key |-> CompiledKey(variant),
               text |-> CompileFor(variant, call.arguments.value)])

\* some message of `msgs` is the compiled-SQL result of `call`
HasCompiledResult(msgs, call) ==
  /\ ~json_loads_raises(call.arguments)
  /\ \E m \in 1..Len(msgs) : msgs[m] = CompiledResult(call)

\* the positions of the query_database calls in the first response
FirstQueryDatabase ==
  {k \in 1..Len(FirstCalls) : FirstCalls[k].name = "query_database"}

\* C21 as stated: when the first response calls query_database and the
\* second model invocation has been made, every such call has, among the messages sent
\* with that invocation, a tool-result message with its id and the SQL
\* compiled from its arguments, and no executor invocation took place between
\* the first and the second invocation.
C21_CompiledBeforeSecondInvocation ==
  (Len(modelCalls) >= 2 /\ FirstQueryDatabase # {}) =>
     /\ \A k \in FirstQueryDatabase : HasCompiledResult(SentWith(2), FirstCalls[k])
     /\ \A e \in 1..Len(execLog) : execLog[e].calls_before # 1

\* the response message of the n-th model invocation (n not the final one)
ResponseOf(n) == messages[modelCalls[n].nmsgs + 1]

\* the tool-result message that reports the rows of the e-th execution
ExecResult(e) ==
  [tool_call_id |-> execLog[e].call_id, role |-> "tool", name |-> "execute_query",
   content |-> [key |-> "rows", rows |-> execLog[e].rows]]

\* the e-th execution was asked for by an execute_query call of the response
\* that was the most recent one when it ran
TriggeredByLatest(e) ==
  \E k \in 1..Len(ResponseOf(execLog[e].calls_before).tool_calls) :
     LET call == ResponseOf(execLog[e].calls_before).tool_calls[k]
     IN call.id = execLog[e].call_id /\ call.name = "execute_query"

\* C22 as stated: every execution was asked for by an execute_query call of
\* the most recent response, its rows are in the conversation as a
\* tool-result message with that call's id, and the model invocation that
\* follows it is sent with that message and is the final-answer invocation.
C22_ExecuteThenResultThenFinal ==
  \A e \in 1..Len(execLog) :
     /\ TriggeredByLatest(e)
     /\ \E m \in 1..Len(messages) : messages[m] = ExecResult(e)
     /\ Len(modelCalls) > execLog[e].calls_before =>
          /\ \E m \in 1..modelCalls[execLog[e].calls_before + 1].nmsgs :
                messages[m] = ExecResult(e)
          /\ modelCalls[execLog[e].calls_before + 1].kind = "final"

\* some tool-result message of `msgs` answers the tool call with id `id`
Answered(msgs, id) ==
  \E m \in 1..Len(msgs) : msgs[m].role = "tool" /\ msgs[m].tool_call_id = id

\* every tool call of every assistant message of `msgs` is answered in `msgs`
AllAnswered(msgs) ==
  \A m \in 1..Len(msgs) :
     msgs[m].role = "assistant" =>
        \A k \in 1..Len(msgs[m].tool_calls) : Answered(msgs, msgs[m].tool_calls[k].id)

\* C23 as stated: the conversation sent with any model invocation holds, for
\* every tool call of its assistant messages, a tool-result message with the
\* id of that call.
C23_EveryToolCallAnswered ==
  \A n \in 1..Len(modelCalls) : AllAnswered(SentWith(n))

\* how many times the engine was handed statement `query`
EngineApplications(query) ==
  Cardinality({k \in 1..Len(engineLog) : engineLog[k] = query})

\* how many times the executor was invoked with statement `query`
ExecutorInvocations(query) ==
  Cardinality({e \in 1..Len(execLog) : execLog[e].query = query})

\* C24 as stated: the engine is handed every statement exactly as many times
\* as the executor was invoked with it.
C24_AppliedOncePerExecute ==
  \A e \in 1..Len(execLog) :
     EngineApplications(execLog[e].query) = ExecutorInvocations(execLog[e].query)

(***************************************************************************)
(* Properties of the returned record.                                      *)
(***************************************************************************)
\* sql_query of the returned record; a record without the field (the one
\* process_user_question returns) has none
RecordSqlQuery(r) == IF "sql_query" \in DOMAIN r THEN r.sql_query ELSE None

\* the statement of the execution that produced the returned query_results:
\* every execution overwrites query_results, so it is the last one
LastExecuted == execLog[Len(execLog)].query

\* query_results of the record is non-null exactly when the executor ran
ResultsIffExecuted ==
  pc = "done" => ((returned.query_results # None) <=> (execLog # <<>>))

\* C25 as stated: in the returned record query_results is non-null exactly
\* when the executor was invoked, and then sql_query is non-null and is the
\* statement whose execution produced query_results.
C25_RecordMatchesExecution ==
  /\ ResultsIffExecuted
  /\ (pc = "done" /\ execLog # <<>>) =>
        /\ RecordSqlQuery(returned) # None
        /\ RecordSqlQuery(returned) = LastExecuted

\* C25 for process_question alone, whose record has the sql_query field
RecordMatchesExecutionB ==
  (pc = "done" /\ variant = B /\ execLog # <<>>) =>
     /\ RecordSqlQuery(returned) # None
     /\ RecordSqlQuery(returned) = LastExecuted

====
